---- MODULE Spec2Model ----
(***************************************************************************)
(* Model of zerver/lib/users.py: the name validator check_full_name, the   *)
(* id resolver user_ids_to_users and the cached email resolver             *)
(* bulk_get_users (on top of generic_bulk_cached_fetch).                   *)
(*                                                                         *)
(* Strings are sequences of one-character strings, so that strip(),        *)
(* lower() and SQL UPPER() are computed character by character.            *)
(***************************************************************************)
EXTENDS Integers, Sequences, FiniteSets, TLC

VARIABLES
    full_name_raw,  \* check_full_name: the argument
    nameOut,        \* check_full_name: what the call produced
    user_ids,       \* user_ids_to_users: the argument list
    id_realm,       \* user_ids_to_users: the realm argument
    idOut,          \* user_ids_to_users: what the call produced
    users,          \* backing store: the set of UserProfile rows
    cache,          \* remote cache: cache key -> entry
    last,           \* bulk_get_users: the last call, kept until the store or the cache is changed from outside
    prev,           \* bulk_get_users: the call before `last`, when `last` repeated its arguments up to case
    calls           \* concurrent bulk_get_users callers: caller -> frame

vars == <<full_name_raw, nameOut, user_ids, id_realm, idOut, users, cache, last, prev, calls>>

(***************************************************************************)
(* Bounds of the model.                                                    *)
(***************************************************************************)
MaxRawLen == 5
MaxUserId == 3
MaxIds == 3
MaxEmails == 2
NumCallers == 2

NotCalled == [called |-> FALSE]

(***************************************************************************)
(* Exceptions and return values.                                           *)
(***************************************************************************)
JsonableError(msg) == [called |-> TRUE, ok |-> FALSE, error |-> msg]

Return(v) == [called |-> TRUE, ok |-> TRUE, value |-> v]

(***************************************************************************)
(* check_full_name                                                         *)
(***************************************************************************)
MAX_NAME_LENGTH == 3

MIN_NAME_LENGTH == 2

\* The configured forbidden characters (a selection of them).
NAME_INVALID_CHARS == {"*", ">", "@"}

Whitespace == {" ", "\t", "\n"}

NameAlphabet == {" ", "a", "*"}

RECURSIVE lstrip(_)
lstrip(s) ==
    IF s # <<>> /\ Head(s) \in Whitespace THEN lstrip(Tail(s)) ELSE s

RECURSIVE rstrip(_)
rstrip(s) ==
    IF s # <<>> /\ s[Len(s)] \in Whitespace THEN rstrip(SubSeq(s, 1, Len(s) - 1)) ELSE s

strip(s) == rstrip(lstrip(s))

CharSet(s) == {s[i] : i \in DOMAIN s}

check_full_name_invalid_first(raw) ==
    LET full_name == strip(raw) IN
    IF CharSet(full_name) \cap NAME_INVALID_CHARS # {}
    THEN JsonableError("Invalid characters in name!")
    ELSE IF Len(full_name) > MAX_NAME_LENGTH THEN JsonableError("Name too long!")
    ELSE IF Len(full_name) < MIN_NAME_LENGTH THEN JsonableError("Name too short!")
    ELSE Return(full_name)

check_full_name(raw) ==
    LET full_name == strip(raw) IN
    IF Len(full_name) > MAX_NAME_LENGTH THEN JsonableError("Name too long!")
    ELSE IF Len(full_name) < MIN_NAME_LENGTH THEN JsonableError("Name too short!")
    ELSE IF CharSet(full_name) \cap NAME_INVALID_CHARS # {}
    THEN JsonableError("Invalid characters in name!")
    ELSE Return(full_name)

(***************************************************************************)
(* The backing store: UserProfile rows, and the point lookup by id.        *)
(***************************************************************************)
Realms == {1, 2}

DoesNotExist == [found |-> FALSE]

get_user_profile_by_id(user_id) ==
    IF \E u \in users : u.id = user_id
    THEN [found |-> TRUE, row |-> CHOOSE u \in users : u.id = user_id]
    ELSE DoesNotExist

(***************************************************************************)
(* user_ids_to_users                                                       *)
(***************************************************************************)
InvalidUserId(user_id) ==
    [called |-> TRUE, ok |-> FALSE, error |-> "Invalid user ID", user_id |-> user_id]

realm_check_skipped(user_profile, realm) == FALSE

realm_mismatch(user_profile, realm) == user_profile.realm # realm

prepend_profile(user_profiles, user_profile) == <<user_profile>> \o user_profiles

append_profile(user_profiles, user_profile) == Append(user_profiles, user_profile)

RECURSIVE user_ids_loop(_, _, _)
user_ids_loop(ids, realm, user_profiles) ==
    IF ids = <<>> THEN Return(user_profiles)
    ELSE LET user_id == Head(ids)
             got == get_user_profile_by_id(user_id)
         IN  IF ~got.found THEN InvalidUserId(user_id)
             ELSE IF realm_mismatch(got.row, realm) THEN InvalidUserId(user_id)
             ELSE user_ids_loop(Tail(ids), realm, append_profile(user_profiles, got.row))

user_ids_to_users(ids, realm) == user_ids_loop(ids, realm, <<>>)

(***************************************************************************)
(* Emails, and the case conversions of Python (lower) and SQL (UPPER).     *)
(***************************************************************************)
LowerChar(c) ==
    CASE c = "A" -> "a" [] c = "B" -> "b" [] c = "C" -> "c" [] OTHER -> c

UpperChar(c) ==
    CASE c = "a" -> "A" [] c = "b" -> "B" [] c = "c" -> "C" [] OTHER -> c

lower(s) == [i \in DOMAIN s |-> LowerChar(s[i])]

UPPER(s) == [i \in DOMAIN s |-> UpperChar(s[i])]

\* The emails callers pass: two casings of the email of user 1, the email of user 2 in
\* another casing than the stored one, and an email of no user.
EmailPool == {<<"a", "@">>, <<"A", "@">>, <<"B", "@">>, <<"c", "@">>}

\* The store at start: emails are unique up to case, each user in one realm.
InitialUsers ==
    { [id |-> 1, email |-> <<"A", "@">>, realm |-> 1, is_active |-> TRUE],
      [id |-> 2, email |-> <<"b", "@">>, realm |-> 2, is_active |-> TRUE] }

SeqsUpTo(S, n) == UNION {[1..k -> S] : k \in 0..n}

EmptyMap == [k \in {} |-> {}]

Overlay(f, g) ==
    [k \in DOMAIN f \cup DOMAIN g |-> IF k \in DOMAIN g THEN g[k] ELSE f[k]]

(***************************************************************************)
(* bulk_get_users                                                          *)
(***************************************************************************)
NoRealm == 0

\* base_query: None, or an override query (here UserProfile.objects.all()).
BaseQueries == {"None", "all"}

base_query_rows(realm, base_query) ==
    IF base_query = "None"
    THEN {u \in users : u.realm = realm /\ u.is_active}
    ELSE users

user_profile_by_email_cache_key(email) == <<"user_profile_by_email", email>>

object_ids_raw(emails) == emails

object_ids_of(emails) == [i \in DOMAIN emails |-> lower(emails[i])]

id_fetcher_raw(user_profile) == user_profile.email

id_fetcher(user_profile) == lower(user_profile.email)

fetch_users_by_email_exact(emails, base_rows) ==
    IF Len(emails) = 0 THEN [rows |-> {}, queries |-> <<>>]
    ELSE [rows |-> {u \in base_rows : \E i \in DOMAIN emails : u.email = emails[i]},
          queries |-> <<emails>>]

fetch_users_by_email_unguarded(emails, base_rows) ==
    [rows |-> {u \in base_rows : \E i \in DOMAIN emails : UPPER(u.email) = UPPER(emails[i])},
     queries |-> <<emails>>]

\* rows: what the query returns; queries: the statements sent to the store.
fetch_users_by_email(emails, base_rows) ==
    IF Len(emails) = 0 THEN [rows |-> {}, queries |-> <<>>]
    ELSE [rows |-> {u \in base_rows : \E i \in DOMAIN emails : UPPER(u.email) = UPPER(emails[i])},
          queries |-> <<emails>>]

(***************************************************************************)
(* generic_bulk_cached_fetch, in its three steps: the cache read, the      *)
(* store fetch of the misses, the cache write and the merged result.       *)
(***************************************************************************)
UserEntry(u) == [kind |-> "user", user |-> u]

NotFoundEntry == [kind |-> "not_found"]

IsHit(cch, key) == key \in DOMAIN cch /\ cch[key].kind = "user"

\* cache_get_many and the partition into hits and misses (input order kept).
cache_read(object_ids, cch) ==
    LET keys == {user_profile_by_email_cache_key(object_ids[i]) : i \in DOMAIN object_ids}
        IsMiss(oid) == ~IsHit(cch, user_profile_by_email_cache_key(oid))
    IN  [cached_objects |-> [key \in {k \in keys : IsHit(cch, k)} |-> cch[key]],
         needed_ids |-> SelectSeq(object_ids, IsMiss)]

\* The batch-fetch callback, handed the misses (an empty list too: it is the
\* callback that sends no query for one).
store_fetch(needed_ids, base_rows) == fetch_users_by_email(needed_ids, base_rows)

items_for_remote_cache(rows) ==
    [key \in {user_profile_by_email_cache_key(id_fetcher(u)) : u \in rows} |->
        UserEntry(CHOOSE u \in rows : user_profile_by_email_cache_key(id_fetcher(u)) = key)]

negative_items(needed_ids, items, negative) ==
    LET missed == {user_profile_by_email_cache_key(needed_ids[i]) : i \in DOMAIN needed_ids}
                    \ DOMAIN items
    IN  IF negative THEN [key \in missed |-> NotFoundEntry] ELSE EmptyMap

\* cache_set_many: the cache after the write.
cache_write(cch, needed_ids, rows, negative) ==
    LET items == items_for_remote_cache(rows)
    IN  Overlay(Overlay(cch, negative_items(needed_ids, items, negative)), items)

\* The mapping returned: object id -> entity, for every id with an entity.
merged_result(object_ids, cached_objects, rows) ==
    LET all == Overlay(cached_objects, items_for_remote_cache(rows))
        ids == {object_ids[i] : i \in DOMAIN object_ids}
    IN  [oid \in {o \in ids : user_profile_by_email_cache_key(o) \in DOMAIN all} |->
            all[user_profile_by_email_cache_key(oid)].user]

generic_bulk_cached_fetch(object_ids, base_rows, cch, negative) ==
    LET rd == cache_read(object_ids, cch)
        fetched == store_fetch(rd.needed_ids, base_rows)
    IN  [out |-> Return(merged_result(object_ids, rd.cached_objects, fetched.rows)),
         queries |-> fetched.queries,
         cache |-> cache_write(cch, rd.needed_ids, fetched.rows, negative)]

AssertionError == [called |-> TRUE, ok |-> FALSE, error |-> "AssertionError"]

bulk_get_users(emails, realm, base_query, cch, negative) ==
    IF base_query = "None" /\ realm = NoRealm
    THEN [out |-> AssertionError, queries |-> <<>>, cache |-> cch]
    ELSE generic_bulk_cached_fetch(object_ids_of(emails), base_query_rows(realm, base_query),
                                   cch, negative)

(***************************************************************************)
(* Specification SpecName: check_full_name on every raw name up to         *)
(* MaxRawLen characters.                                                   *)
(***************************************************************************)
Idle == [pc |-> "idle"]

InitName ==
    /\ full_name_raw \in SeqsUpTo(NameAlphabet, MaxRawLen)
    /\ nameOut = NotCalled
    /\ user_ids = <<>> /\ id_realm = NoRealm /\ idOut = NotCalled
    /\ users = {} /\ cache = EmptyMap /\ last = NotCalled /\ prev = NotCalled
    /\ calls = EmptyMap

CheckFullName ==
    /\ ~nameOut.called
    /\ nameOut' = check_full_name(full_name_raw)
    /\ UNCHANGED <<full_name_raw, user_ids, id_realm, idOut, users, cache, last, prev, calls>>

NextName == CheckFullName

SpecName == InitName /\ [][NextName]_vars

(***************************************************************************)
(* Specification SpecIds: user_ids_to_users on every store over            *)
(* 1..MaxUserId and every id list up to MaxIds.                            *)
(***************************************************************************)
\* The store in which user i is absent (where[i] = 0) or lives in realm where[i].
StoreOf(where) ==
    { [id |-> i, email |-> <<"u", ToString(i), "@">>, realm |-> where[i],
       is_active |-> (i % 2 = 1)] : i \in {j \in DOMAIN where : where[j] # 0} }

InitIds ==
    /\ users \in {StoreOf(where) : where \in [1..MaxUserId -> {0} \cup Realms]}
    /\ user_ids \in SeqsUpTo(1..MaxUserId, MaxIds)
    /\ id_realm \in Realms
    /\ idOut = NotCalled
    /\ full_name_raw = <<>> /\ nameOut = NotCalled
    /\ cache = EmptyMap /\ last = NotCalled /\ prev = NotCalled /\ calls = EmptyMap

UserIdsToUsers ==
    /\ ~idOut.called
    /\ idOut' = user_ids_to_users(user_ids, id_realm)
    /\ UNCHANGED <<full_name_raw, nameOut, user_ids, id_realm, users, cache, last, prev, calls>>

NextIds == UserIdsToUsers

SpecIds == InitIds /\ [][NextIds]_vars

(***************************************************************************)
(* External collaborators of the email resolver: a mutation of a user      *)
(* (de- or reactivation) with the invalidation of its cache entry, and     *)
(* the expiry of a cache entry.                                            *)
(***************************************************************************)
mutated_users(u) ==
    (users \ {u}) \cup {[u EXCEPT !.is_active = ~u.is_active]}

without_key(cch, key) == [k \in DOMAIN cch \ {key} |-> cch[k]]

invalidated_cache(cch, u) ==
    without_key(cch, user_profile_by_email_cache_key(lower(u.email)))

(***************************************************************************)
(* Specification Spec: bulk_get_users calls one after another, each one    *)
(* atomic, with mutations and cache expiry between them.  `last` is the    *)
(* call whose result the caller still holds: the caller either repeats     *)
(* that call (with the emails in any case) or lets go of the result        *)
(* (Release) before it calls with other arguments.  The store and the      *)
(* cache do not depend on `last` and `prev`.                               *)
(***************************************************************************)
Init ==
    /\ users = InitialUsers
    /\ cache = EmptyMap
    /\ last = NotCalled
    /\ prev = NotCalled
    /\ full_name_raw = <<>> /\ nameOut = NotCalled
    /\ user_ids = <<>> /\ id_realm = NoRealm /\ idOut = NotCalled
    /\ calls = EmptyMap

\* The emails of `emails` in every case the callers use.
RECURSIVE CaseVariants(_)
CaseVariants(emails) ==
    IF emails = <<>> THEN {<<>>}
    ELSE {<<e>> \o rest : e \in {x \in EmailPool : lower(x) = lower(Head(emails))},
                          rest \in CaseVariants(Tail(emails))}

\* The arguments of the next call: those of `last` again, up to the case of
\* the emails, while its result is held; any arguments otherwise.
EmailChoices == IF last.called THEN CaseVariants(last.emails) ELSE SeqsUpTo(EmailPool, MaxEmails)

\* (realm, base_query): a realm or None with the default query, None with an
\* override query, which makes no use of the realm.
ScopeChoices ==
    IF last.called THEN {<<last.realm, last.base_query>>}
    ELSE ((Realms \cup {NoRealm}) \X {"None"}) \cup ({NoRealm} \X (BaseQueries \ {"None"}))

BulkGetUsers ==
    \E emails \in EmailChoices, scope \in ScopeChoices, negative \in BOOLEAN :
        LET realm == scope[1]
            base_query == scope[2]
            r == bulk_get_users(emails, realm, base_query, cache, negative)
        IN  /\ cache' = r.cache
            /\ last' = [called |-> TRUE, emails |-> emails, realm |-> realm,
                        base_query |-> base_query, cached |-> cache,
                        queries |-> r.queries, out |-> r.out]
            /\ prev' = IF last.called
                       THEN [called |-> TRUE, emails |-> last.emails, out |-> last.out]
                       ELSE NotCalled
            /\ UNCHANGED <<full_name_raw, nameOut, user_ids, id_realm, idOut, users, calls>>

Mutate ==
    \E u \in users :
        /\ users' = mutated_users(u)
        /\ cache' = invalidated_cache(cache, u)
        /\ last' = NotCalled
        /\ prev' = NotCalled
        /\ UNCHANGED <<full_name_raw, nameOut, user_ids, id_realm, idOut, calls>>

Expire ==
    \E key \in DOMAIN cache :
        /\ cache' = without_key(cache, key)
        /\ last' = NotCalled
        /\ prev' = NotCalled
        /\ UNCHANGED <<full_name_raw, nameOut, user_ids, id_realm, idOut, users, calls>>

Release ==
    /\ last.called
    /\ last' = NotCalled
    /\ prev' = NotCalled
    /\ UNCHANGED <<full_name_raw, nameOut, user_ids, id_realm, idOut, users, cache, calls>>

Next == BulkGetUsers \/ Mutate \/ Expire \/ Release

Spec == Init /\ [][Next]_vars

(***************************************************************************)
(* Specification SpecRace: NumCallers concurrent bulk_get_users callers,   *)
(* each taking the cache read, the store fetch and the cache write as      *)
(* separate steps with no lock held, and concurrent mutations.             *)
(***************************************************************************)
Callers == 1..NumCallers

InitRace ==
    /\ users = InitialUsers
    /\ cache = EmptyMap
    /\ calls = [p \in Callers |-> Idle]
    /\ last = NotCalled /\ prev = NotCalled
    /\ full_name_raw = <<>> /\ nameOut = NotCalled
    /\ user_ids = <<>> /\ id_realm = NoRealm /\ idOut = NotCalled

RaceRead(p) ==
    \E email \in EmailPool, realm \in Realms, base_query \in BaseQueries :
        LET object_ids == object_ids_of(<<email>>)
            rd == cache_read(object_ids, cache)
        IN  /\ calls[p].pc = "idle"
            /\ calls' = [calls EXCEPT ![p] =
                            [pc |-> "fetch", object_ids |-> object_ids, realm |-> realm,
                             base_query |-> base_query,
                             cached_objects |-> rd.cached_objects,
                             needed_ids |-> rd.needed_ids]]
            /\ UNCHANGED <<full_name_raw, nameOut, user_ids, id_realm, idOut, users, cache, last, prev>>

RaceFetch(p) ==
    LET f == calls[p]
        fetched == store_fetch(f.needed_ids, base_query_rows(f.realm, f.base_query))
    IN  /\ f.pc = "fetch"
        /\ calls' = [calls EXCEPT ![p] =
                        [pc |-> "write", object_ids |-> f.object_ids,
                         cached_objects |-> f.cached_objects,
                         needed_ids |-> f.needed_ids, rows |-> fetched.rows]]
        /\ UNCHANGED <<full_name_raw, nameOut, user_ids, id_realm, idOut, users, cache, last, prev>>

RaceWrite(p) ==
    \E negative \in BOOLEAN :
        LET f == calls[p]
        IN  /\ f.pc = "write"
            /\ cache' = cache_write(cache, f.needed_ids, f.rows, negative)
            /\ calls' = [calls EXCEPT ![p] = Idle]
            /\ UNCHANGED <<full_name_raw, nameOut, user_ids, id_realm, idOut, users, last, prev>>

RaceMutate ==
    \E u \in users :
        /\ users' = mutated_users(u)
        /\ cache' = invalidated_cache(cache, u)
        /\ UNCHANGED <<full_name_raw, nameOut, user_ids, id_realm, idOut, last, prev, calls>>

NextRace == (\E p \in Callers : RaceRead(p) \/ RaceFetch(p) \/ RaceWrite(p)) \/ RaceMutate

SpecRace == InitRace /\ [][NextRace]_vars

(***************************************************************************)
(* Properties of user_ids_to_users (specification SpecIds).                *)
(***************************************************************************)
\* No user with this id lives in the realm of the call: the id is unknown,
\* or it is the id of a user of another realm.
Unresolvable(user_id) == ~\E u \in users : u.id = user_id /\ u.realm = id_realm

UnresolvableAt == {i \in DOMAIN user_ids : Unresolvable(user_ids[i])}

\* C1: when some id of the list is unknown or belongs to a user of another
\* realm, the call raises "Invalid user ID" (the same error for both causes),
\* returns no list, and the error carries the first such id in input order.
C1_FailsOnFirstUnresolvableId ==
    (idOut.called /\ UnresolvableAt # {}) =>
        /\ ~idOut.ok
        /\ idOut.error = "Invalid user ID"
        /\ "value" \notin DOMAIN idOut
        /\ \E i \in UnresolvableAt :
              /\ \A j \in UnresolvableAt : i <= j
              /\ idOut.user_id = user_ids[i]

C1_Witness ==
    /\ idOut.called /\ ~idOut.ok
    /\ Len(user_ids) = 3
    /\ ~Unresolvable(user_ids[1])
    /\ \E u \in users : u.id = user_ids[2] /\ u.realm # id_realm
    /\ ~\E u \in users : u.id = user_ids[3]
    /\ idOut.user_id = user_ids[2]

\* C6: a successful call returns a list as long as the id list whose i-th
\* element is the user with the i-th id (order kept, duplicates repeated).
C6_OrderPreserved ==
    (idOut.called /\ idOut.ok) =>
        /\ Len(idOut.value) = Len(user_ids)
        /\ \A i \in DOMAIN user_ids :
              idOut.value[i] \in users /\ idOut.value[i].id = user_ids[i]

C6_Witness ==
    /\ idOut.called /\ idOut.ok
    /\ Len(user_ids) = 3
    /\ user_ids[1] > user_ids[2]
    /\ user_ids[3] = user_ids[1]

(***************************************************************************)
(* Properties of check_full_name (specification SpecName).                 *)
(***************************************************************************)
\* raw is whitespace, then SubSeq(raw, i+1, j), then whitespace, and the
\* middle part neither starts nor ends with whitespace.
TrimmedAt(raw, i, j) ==
    /\ i <= j
    /\ \A k \in 1..i : raw[k] \in Whitespace
    /\ \A k \in (j + 1)..Len(raw) : raw[k] \in Whitespace
    /\ i < j => (raw[i + 1] \notin Whitespace /\ raw[j] \notin Whitespace)

HasForbidden(t) == \E k \in DOMAIN t : t[k] \in NAME_INVALID_CHARS

\* C8: with t the raw name without its leading and trailing whitespace:
\* too long whatever t contains, else too short, else invalid characters
\* when t has a forbidden one, else the value returned is exactly t.
C8_FullNameDecision ==
    nameOut.called =>
        \A i, j \in 0..Len(full_name_raw) :
            TrimmedAt(full_name_raw, i, j) =>
                LET t == SubSeq(full_name_raw, i + 1, j)
                    within == Len(t) <= MAX_NAME_LENGTH /\ Len(t) >= MIN_NAME_LENGTH
                IN  /\ Len(t) > MAX_NAME_LENGTH =>
                            (~nameOut.ok /\ nameOut.error = "Name too long!")
                    /\ Len(t) < MIN_NAME_LENGTH =>
                            (~nameOut.ok /\ nameOut.error = "Name too short!")
                    /\ (within /\ HasForbidden(t)) =>
                            (~nameOut.ok /\ nameOut.error = "Invalid characters in name!")
                    /\ (within /\ ~HasForbidden(t)) =>
                            (nameOut.ok /\ nameOut.value = t)

C8_Witness ==
    /\ nameOut.called /\ ~nameOut.ok
    /\ nameOut.error = "Name too long!"
    /\ Head(full_name_raw) \in Whitespace
    /\ HasForbidden(full_name_raw)

(***************************************************************************)
(* Properties of bulk_get_users (specification Spec).  In a state where    *)
(* last.called holds, the store is the one the call read.                  *)
(***************************************************************************)
LastOk == last.called /\ last.out.ok

LastEmails == {last.emails[i] : i \in DOMAIN last.emails}

\* The rows the query of the last call ranges over.
LastScope == base_query_rows(last.realm, last.base_query)

HasUser(email) == \E u \in LastScope : lower(u.email) = lower(email)

\* There is an entity for the email: in the cache the call read, or in the store.
Resolves(email) ==
    \/ IsHit(last.cached, user_profile_by_email_cache_key(lower(email)))
    \/ HasUser(email)

\* The emails the last call asked the store for.
Queried ==
    UNION {{last.queries[q][j] : j \in DOMAIN last.queries[q]} : q \in DOMAIN last.queries}

AssertionFails == last.base_query = "None" /\ last.realm = NoRealm

C3_AtMostOneStoreQuery ==
    last.called =>
        /\ Len(last.queries) <= 1
        /\ \A k \in Queried :
              /\ ~IsHit(last.cached, user_profile_by_email_cache_key(k))
              /\ \E e \in LastEmails : k = lower(e)
        /\ (\A e \in LastEmails :
                IsHit(last.cached, user_profile_by_email_cache_key(lower(e))))
              => last.queries = <<>>

C3_Witness ==
    /\ last.called
    /\ Len(last.queries) = 1
    /\ Cardinality(Queried) = 1
    /\ \E e \in LastEmails :
          IsHit(last.cached, user_profile_by_email_cache_key(lower(e)))

\* `last` was called with exactly the arguments of the call before it, with
\* no mutation and no cache expiry between the two.
Repeated == last.called /\ prev.called /\ prev.emails = last.emails

\* C4, as claimed: the second of two such calls returns what the first
\* returned and sends no query to the store, whatever the email list.
C4_SecondCallNoStoreQuery ==
    Repeated => (last.out = prev.out /\ last.queries = <<>>)

\* C4, amended: the second call returns what the first returned; it sends no
\* query when every email resolved in the first call, and otherwise at most
\* one, for emails that did not resolve in the first call.
C4_SecondCallQueriesOnlyUnresolved ==
    Repeated =>
        /\ last.out = prev.out
        /\ Len(last.queries) <= 1
        /\ last.out.ok => \A k \in Queried : k \notin DOMAIN prev.out.value
        /\ (prev.out.ok /\ \A e \in LastEmails : lower(e) \in DOMAIN prev.out.value)
              => last.queries = <<>>

C4_Witness ==
    /\ Repeated /\ LastOk
    /\ Len(last.emails) = 2
    /\ Cardinality(DOMAIN last.out.value) = 1
    /\ Cardinality(Queried) = 1

IsUserRow(v) == DOMAIN v = {"id", "email", "realm", "is_active"}

C7_CaseInsensitive ==
    /\ \A key \in DOMAIN cache : key = user_profile_by_email_cache_key(lower(key[2]))
    /\ LastOk =>
          /\ \A e \in LastEmails :
                LET k == lower(e)
                    slot == user_profile_by_email_cache_key(k)
                IN  /\ HasUser(e) => k \in DOMAIN last.out.value
                    /\ k \in DOMAIN last.out.value =>
                          /\ lower(last.out.value[k].email) = k
                          /\ IsHit(cache, slot)
                          /\ cache[slot].user = last.out.value[k]
          /\ prev.called => last.out = prev.out

C7_Witness ==
    /\ LastOk /\ prev.called
    /\ prev.emails # last.emails
    /\ DOMAIN last.out.value # {}
    /\ last.queries = <<>>
    /\ \E u \in users : u.email # lower(u.email) /\ lower(u.email) \in DOMAIN last.out.value

\* C10: every user returned by a call with no override query belongs to the
\* realm of the call and is active.
C10_OnlyActiveUsersOfTheRealm ==
    (LastOk /\ last.base_query = "None") =>
        \A k \in DOMAIN last.out.value :
            last.out.value[k].realm = last.realm /\ last.out.value[k].is_active

(***************************************************************************)
(* Property of concurrent callers (specification SpecRace).                *)
(***************************************************************************)
\* C9: whatever the interleaving of callers and mutations, the cache never
\* holds an entity that differs from the current row of the store.
C9_CacheNeverStale ==
    \A key \in DOMAIN cache : cache[key].kind = "user" => cache[key].user \in users

====
